---- MODULE Spec2Model ----
(***************************************************************************)
(* Model of the Figma-to-Jira proxy server (src/src/server.js).            *)
(*                                                                         *)
(* The state is the set of inbound HTTP exchanges the Express application  *)
(* is serving: for each one the parsed request body, the position of the   *)
(* async route handler, the axios call it dispatched, the outcome of that  *)
(* call, and the response written to the caller.  The only state shared    *)
(* between exchanges is the hit counter of express-rate-limit.             *)
(*                                                                         *)
(* JavaScript strings are sequences of one-character strings so that the   *)
(* template literals, toLowerCase, base64 and the regular expression are   *)
(* computed character by character.                                        *)
(***************************************************************************)
EXTENDS Integers, Sequences, FiniteSets, TLC

VARIABLES
    pc,            \* per exchange: position of the route handler
    req,           \* per exchange: req.body as destructured on line 35
    call,          \* per exchange: the config object handed to axios
    calls,         \* per exchange: number of axios invocations
    netio,         \* per exchange: TRUE once bytes were sent to the upstream
    up,            \* per exchange: what the upstream / axios does with the call
    resp,          \* per exchange: last response written with res.status().json()
    nresp,         \* per exchange: number of responses written
    limited,       \* per exchange: TRUE when apiLimiter answered it
    hits,          \* apiLimiter: requests counted in the current window
    expressMajor   \* major version of the express package the build installed

vars == <<pc, req, call, calls, netio, up, resp, nresp, limited, hits, expressMajor>>

----------------------------------------------------------------------------
(* Bounds of the model *)

\* number of inbound exchanges that can be open at once on the mounted route
NumSlots == 2
\* number of text pieces an upstream HTML error page is assembled from
MaxPieces == 3

(* Program constants *)

\* rateLimit({ max: 200 })
RateMax == 200
\* res.status(error.response.status || 502)
DefaultHtmlStatus == 502

Slots == 1..NumSlots
\* the handler contract is checked one exchange at a time
HandlerSlots == {1}

----------------------------------------------------------------------------
(* JavaScript values carried by JSON bodies.  t is the typeof tag, s the   *)
(* characters of a string (or the key of an object), n a number, or for an *)
(* object 1 when it carries an own non-callable toString property.       *)

JV(t, s, n) == [t |-> t, s |-> s, n |-> n]
Undef == JV("undefined", <<>>, 0)
Null == JV("null", <<>>, 0)
Str(s) == JV("string", s, 0)
Num(n) == JV("number", <<>>, n)
Obj(k) == JV("object", k, 0)
\* the object parsed from the JSON text {toString: 1}
ObjNoPrim == JV("object", <<"t", "o", "S", "t", "r", "i", "n", "g">>, 1)

\* ToBoolean, as applied by the ! operator on line 37
Truthy(v) ==
    CASE v.t = "undefined" -> FALSE
      [] v.t = "null" -> FALSE
      [] v.t = "string" -> v.s # <<>>
      [] v.t = "number" -> v.n # 0
      [] OTHER -> TRUE

\* printable ASCII, code 32 first; the three characters a TLA+ string cannot
\* hold (codes 34, 92, 96) are spelled out and occur in no modelled string
Ascii ==
    <<" ", "!", "DQUOTE", "#", "$", "%", "&", "'", "(", ")", "*", "+", ",", "-",
      ".", "/", "0", "1", "2", "3", "4", "5", "6", "7", "8", "9", ":", ";",
      "<", "=", ">", "?", "@", "A", "B", "C", "D", "E", "F", "G", "H", "I",
      "J", "K", "L", "M", "N", "O", "P", "Q", "R", "S", "T", "U", "V", "W",
      "X", "Y", "Z", "[", "BACKSLASH", "]", "^", "_", "GRAVE", "a", "b", "c", "d", "e",
      "f", "g", "h", "i", "j", "k", "l", "m", "n", "o", "p", "q", "r", "s",
      "t", "u", "v", "w", "x", "y", "z", "{", "|", "}", "~">>

Chars == {Ascii[i] : i \in 1..Len(Ascii)}
Ord == [c \in Chars |-> 31 + (CHOOSE i \in 1..Len(Ascii) : Ascii[i] = c)]
Chr(b) == Ascii[b - 31]

\* ${v}: ToString of a value interpolated into a template literal (numbers
\* of one digit).  Defined where CanInterpolate(v) holds.
ObjectObject ==
    <<"[", "o", "b", "j", "e", "c", "t", " ", "O", "b", "j", "e", "c", "t", "]">>
CanInterpolate(v) == ~(v.t = "object" /\ v.n = 1)
Interpolate(v) ==
    CASE v.t = "string" -> v.s
      [] v.t = "number" -> <<Chr(48 + v.n)>>
      [] v.t = "object" -> ObjectObject
      [] v.t = "null" -> <<"n", "u", "l", "l">>
      [] OTHER -> <<"u", "n", "d", "e", "f", "i", "n", "e", "d">>

\* String.prototype.toLowerCase / toUpperCase exist on strings only
HasStringMethods(v) == v.t = "string"
LowerChar(c) == IF Ord[c] >= 65 /\ Ord[c] <= 90 THEN Chr(Ord[c] + 32) ELSE c
ToLowerCase(s) == [i \in 1..Len(s) |-> LowerChar(s[i])]
UpperChar(c) == IF Ord[c] >= 97 /\ Ord[c] <= 122 THEN Chr(Ord[c] - 32) ELSE c
ToUpperCase(s) == [i \in 1..Len(s) |-> UpperChar(s[i])]

----------------------------------------------------------------------------
(* base64Encode = (str) => Buffer.from(str).toString(base64)             *)

B64 ==
    <<"A", "B", "C", "D", "E", "F", "G", "H", "I", "J", "K", "L", "M", "N",
      "O", "P", "Q", "R", "S", "T", "U", "V", "W", "X", "Y", "Z", "a", "b",
      "c", "d", "e", "f", "g", "h", "i", "j", "k", "l", "m", "n", "o", "p",
      "q", "r", "s", "t", "u", "v", "w", "x", "y", "z", "0", "1", "2", "3",
      "4", "5", "6", "7", "8", "9", "+", "/">>

\* Buffer.from(str): the UTF-8 bytes (one byte per ASCII character)
BufferFrom(str) == [i \in 1..Len(str) |-> Ord[str[i]]]

\* the 24-bit group starting at byte i, missing bytes read as 0
Group24(bytes, i) ==
    bytes[i] * 65536
    + (IF i + 1 <= Len(bytes) THEN bytes[i + 1] * 256 ELSE 0)
    + (IF i + 2 <= Len(bytes) THEN bytes[i + 2] ELSE 0)

Quad(bytes, i) ==
    LET g == Group24(bytes, i)
    IN  <<B64[(g \div 262144) + 1],
          B64[((g \div 4096) % 64) + 1],
          IF i + 1 <= Len(bytes) THEN B64[((g \div 64) % 64) + 1] ELSE "=",
          IF i + 2 <= Len(bytes) THEN B64[(g % 64) + 1] ELSE "=">>

RECURSIVE ToBase64(_, _)
ToBase64(bytes, i) ==
    IF i > Len(bytes) THEN <<>> ELSE Quad(bytes, i) \o ToBase64(bytes, i + 3)

\* variant: the padding characters are dropped
base64Encode_NoPad(str) ==
    SelectSeq(ToBase64(BufferFrom(str), 1), LAMBDA c : c # "=")
base64Encode(str) == ToBase64(BufferFrom(str), 1)

----------------------------------------------------------------------------
(* String literals of server.js *)

Https == <<"h", "t", "t", "p", "s", ":", "/", "/">>
RestApi3 == <<"/", "r", "e", "s", "t", "/", "a", "p", "i", "/", "3">>
Slash == <<"/">>
BasicPrefix == <<"B", "a", "s", "i", "c", " ">>
Colon == <<":">>
TextHtml == <<"t", "e", "x", "t", "/", "h", "t", "m", "l">>
RequestIdLit == <<"R", "e", "q", "u", "e", "s", "t", " ", "I", "D", ":", " ">>

MsgMissing ==
    "Missing required fields: jiraDomain, jiraEmail, jiraToken, jiraApiEndpoint, method"
MsgHtml ==
    "Error connecting to Jira API. Jira returned an unexpected HTML response (possibly blocked by CloudFront)."
MsgJira == "Error from Jira API."
MsgNoResponse == "No response received from Jira (Gateway Timeout)."
MsgInternal == "Proxy internal error: "
MsgUnexpected == "An unexpected error occurred on the proxy server!"
MsgTooMany == "Too many requests from this IP, please try again after 15 minutes."

----------------------------------------------------------------------------
(* Request construction, lines 37-65 *)

RequiredFields == {"jiraDomain", "jiraEmail", "jiraToken", "jiraApiEndpoint", "method"}

\* line 37: the fields that make the guard true
\* variant: the guard forgets method
MissingFields_NoMethod(r) == {f \in RequiredFields \ {"method"} : ~Truthy(r[f])}
MissingFields(r) == {f \in RequiredFields : ~Truthy(r[f])}

\* lines 42-43
RequestUrl(r) ==
    Https \o Interpolate(r.jiraDomain) \o RestApi3 \o Slash \o Interpolate(r.jiraApiEndpoint)

\* line 44
AuthToken(r) ==
    BasicPrefix \o base64Encode(Interpolate(r.jiraEmail) \o Colon \o Interpolate(r.jiraToken))

\* lines 42-50 run outside the try block: a template literal throws a
\* TypeError on an object that has no primitive value, and line 50 throws one
\* when method has no toUpperCase
SetupThrows(r) ==
    \/ ~CanInterpolate(r.jiraDomain)
    \/ ~CanInterpolate(r.jiraApiEndpoint)
    \/ ~CanInterpolate(r.jiraEmail)
    \/ ~CanInterpolate(r.jiraToken)
    \/ ~HasStringMethods(r.method)

\* lines 53-65: the config object passed to axios
AxiosConfig(r) ==
    [method |-> ToLowerCase(r.method.s),
     url |-> RequestUrl(r),
     data |-> r.body,
     Authorization |-> AuthToken(r)]

NoCall == [method |-> <<>>, url |-> <<>>, data |-> Undef, Authorization |-> <<>>]

----------------------------------------------------------------------------
(* The upstream and axios.  An outcome is what the awaited promise settles  *)
(* to: a response with a status (fulfilled when validateStatus accepts it,  *)
(* rejected with error.response otherwise), no response (error.request      *)
(* only: timeout after 20000 ms, connection reset, DNS failure), or an      *)
(* error raised before anything was sent (neither field set).               *)

Outcome(kind, status, ctype, data, message) ==
    [kind |-> kind, status |-> status, ctype |-> ctype, data |-> data, message |-> message]
NoOutcome == Outcome("none", 0, Undef, Undef, "")

\* axios default validateStatus
ValidateStatus(status) == status >= 200 /\ status < 300

\* the URL parser refuses a URL that holds whitespace; axios then rejects
\* without creating a request
InvalidUrl(url) == \E i \in 1..Len(url) : url[i] = " "

----------------------------------------------------------------------------
(* Response translation, lines 66-106 *)

Response(status, body) == [status |-> status, body |-> body]
NoReply == Response(0, Undef)

\* String.prototype.includes
Includes(str, sub) ==
    \E i \in 1..(Len(str) - Len(sub) + 1) : SubSeq(str, i, i + Len(sub) - 1) = sub

\* lines 76-77
IsHtml(contentType) == Truthy(contentType) /\ Includes(contentType.s, TextHtml)

\* the character class [^\s<]; the space is the only whitespace character of
\* the modelled alphabet
TokenChar(c) == c # " " /\ c # "<"

\* the regular expression /Request ID: ([^\s<]+)/ matches at position i
MatchesAt(data, i) ==
    /\ i + Len(RequestIdLit) <= Len(data)
    /\ SubSeq(data, i, i + Len(RequestIdLit) - 1) = RequestIdLit
    /\ TokenChar(data[i + Len(RequestIdLit)])

\* leftmost match at or after position i, 0 when there is none
RECURSIVE FirstMatch(_, _)
FirstMatch(data, i) ==
    IF i > Len(data) THEN 0
    ELSE IF MatchesAt(data, i) THEN i
    ELSE FirstMatch(data, i + 1)

\* the + quantifier is greedy: last position of the run that starts at j
RECURSIVE RunEnd(_, _)
RunEnd(data, j) ==
    IF j + 1 <= Len(data) /\ TokenChar(data[j + 1]) THEN RunEnd(data, j + 1) ELSE j

\* lines 80-87
\* variant: the + quantifier is left out of the pattern
CloudfrontRequestId_OneChar(data) ==
    IF data.t # "string" THEN Null
    ELSE LET i == FirstMatch(data.s, 1)
             j == i + Len(RequestIdLit)
         IN  IF i = 0 THEN Null ELSE Str(SubSeq(data.s, j, j))
CloudfrontRequestId(data) ==
    IF data.t # "string" THEN Null
    ELSE LET i == FirstMatch(data.s, 1)
             j == i + Len(RequestIdLit)
         IN  IF i = 0 THEN Null ELSE Str(SubSeq(data.s, j, RunEnd(data.s, j)))

\* line 67
\* variants: the body is wrapped in an envelope; the result is kept in a
\* variable shared by all exchanges
SuccessResponse_Wrapped(u) == Response(u.status, [data |-> u.data])
SuccessResponse_SharedResult(u) == Response(up[1].status, up[1].data)
SuccessResponse(u) == Response(u.status, u.data)

\* lines 88-92
HtmlErrorResponse(u) ==
    Response(IF u.status # 0 THEN u.status ELSE DefaultHtmlStatus,
             [error |-> MsgHtml,
              jiraHtmlError |-> TRUE,
              cloudfrontRequestId |-> CloudfrontRequestId(u.data)])

\* lines 95-99
\* variant: the stringified copy of line 73 is sent instead of the data
JiraErrorResponse_Stringified(u) ==
    Response(u.status,
             [error |-> MsgJira,
              jiraErrorStatus |-> u.status,
              jiraErrorData |-> Str(u.data.s)])
JiraErrorResponse(u) ==
    Response(u.status,
             [error |-> MsgJira,
              jiraErrorStatus |-> u.status,
              jiraErrorData |-> u.data])

\* line 102
\* variant: answered as a bad gateway
NoResponseResponse_502(u) == Response(502, [error |-> MsgNoResponse])
NoResponseResponse(u) == Response(504, [error |-> MsgNoResponse])

\* line 105
SetupErrorResponse(u) == Response(500, [error |-> MsgInternal \o u.message])

\* lines 70-99: what the error.response branch writes, in order
ErrorResponseWrites(u) ==
    IF IsHtml(u.ctype)
    THEN <<HtmlErrorResponse(u)>>
    ELSE <<JiraErrorResponse(u)>>

\* line 39
ValidationResponse(r) == Response(400, [error |-> MsgMissing])

\* line 112
UnexpectedResponse == Response(500, [error |-> MsgUnexpected])

\* apiLimiter, lines 19-25: statusCode 429 with the configured message
TooManyResponse == Response(429, [error |-> MsgTooMany])

----------------------------------------------------------------------------
(* Inputs: request bodies and upstream behaviours *)

Body(d, e, t, a, m, b) ==
    [jiraDomain |-> d, jiraEmail |-> e, jiraToken |-> t,
     jiraApiEndpoint |-> a, method |-> m, body |-> b]
NoBody == Body(Undef, Undef, Undef, Undef, Undef, Undef)

Domains == {Undef, Str(<<"x", ".", "a", "t", "l", "a", "s", "s", "i", "a", "n", ".", "n", "e", "t">>), Str(<<"a", " ", "b">>)}
Emails == {Undef, Str(<<>>), Str(<<"a", "@", "b", ".", "c", "o", "m">>), ObjNoPrim}
Tokens == {Undef, Str(<<"t">>), Str(<<"s", "3">>)}
Endpoints == {Undef, Str(<<"m", "y", "s", "e", "l", "f">>), Str(<<"/", "i", "s", "s", "u", "e">>)}
Methods == {Undef, Str(<<"G", "E", "T">>), Str(<<"g", "e", "t">>), Str(<<"P", "o", "s", "t">>), Num(5)}
Payloads == {Undef, Obj(<<"s", "u", "m", "m", "a", "r", "y">>)}

\* the bodies express.json() hands to the route: parsed JSON objects
Requests ==
    {Body(d, e, t, a, m, b) :
        d \in Domains, e \in Emails, t \in Tokens,
        a \in Endpoints, m \in Methods, b \in Payloads}

\* the bodies used on the mounted route
MountedRequests ==
    {Body(Str(<<"x", ".", "a", "t", "l", "a", "s", "s", "i", "a", "n", ".", "n", "e", "t">>), Str(<<"a", "@", "b", ".", "c", "o", "m">>), Str(<<"t">>),
          Str(<<"m", "y", "s", "e", "l", "f">>), Str(<<"G", "E", "T">>), Undef),
     Body(Str(<<"x", ".", "a", "t", "l", "a", "s", "s", "i", "a", "n", ".", "n", "e", "t">>), Str(<<"a", "@", "b", ".", "c", "o", "m">>), Str(<<"t">>),
          Str(<<"/", "i", "s", "s", "u", "e">>), Str(<<"P", "o", "s", "t">>), Obj(<<"s", "u", "m", "m", "a", "r", "y">>))}

\* upstream HTML error pages: up to MaxPieces pieces of text
Pieces == {RequestIdLit, <<"K", "7">>, <<" ">>, <<"<">>}
RECURSIVE Flatten(_)
Flatten(ps) == IF ps = <<>> THEN <<>> ELSE Head(ps) \o Flatten(Tail(ps))
HtmlPages == {Flatten(ps) : ps \in UNION {[1..n -> Pieces] : n \in 0..MaxPieces}}

ContentTypes ==
    {Undef, Str(<<"a", "p", "p", "l", "i", "c", "a", "t", "i", "o", "n", "/", "j", "s", "o", "n">>), Str(<<"t", "e", "x", "t", "/", "h", "t", "m", "l">>),
     Str(<<"t", "e", "x", "t", "/", "h", "t", "m", "l", ";", " ", "c", "h", "a", "r", "s", "e", "t", "=", "U", "T", "F", "-", "8">>)}
ErrorData == {Obj(<<"e", "r", "r", "o", "r", "M", "e", "s", "s", "a", "g", "e", "s">>)} \cup {Str(p) : p \in HtmlPages}

SuccessOutcomes ==
    {Outcome("response", st, Str(<<"a", "p", "p", "l", "i", "c", "a", "t", "i", "o", "n", "/", "j", "s", "o", "n">>), d, "") :
        st \in {200, 201}, d \in {Obj(<<"k", "e", "y">>), Str(<<"o", "k">>)}}
ErrorOutcomes ==
    {Outcome("response", st, ct, d, "") :
        st \in {403, 404}, ct \in ContentTypes, d \in ErrorData}
NoResponseOutcomes ==
    {Outcome("noresponse", 0, Undef, Undef, m) :
        m \in {"timeout of 20000ms exceeded", "socket hang up", "getaddrinfo ENOTFOUND"}}
SetupOutcomes == {Outcome("setup", 0, Undef, Undef, "Invalid URL")}

Dispatches(r) == MissingFields(r) = {} /\ ~SetupThrows(r)

OutcomesFor(r) ==
    IF ~Dispatches(r) THEN {NoOutcome}
    ELSE IF InvalidUrl(RequestUrl(r)) THEN SetupOutcomes
    ELSE SuccessOutcomes \cup ErrorOutcomes \cup NoResponseOutcomes

MountedOutcomes ==
    {Outcome("response", 200, Str(<<"a", "p", "p", "l", "i", "c", "a", "t", "i", "o", "n", "/", "j", "s", "o", "n">>), Obj(<<"k", "e", "y">>), ""),
     Outcome("response", 404, Str(<<"a", "p", "p", "l", "i", "c", "a", "t", "i", "o", "n", "/", "j", "s", "o", "n">>), Obj(<<"e", "r", "r", "o", "r", "M", "e", "s", "s", "a", "g", "e", "s">>), "")}

----------------------------------------------------------------------------
(* Initial state: no exchange open, an empty rate-limit window *)

Init ==
    /\ pc = [s \in Slots |-> "idle"]
    /\ req = [s \in Slots |-> NoBody]
    /\ call = [s \in Slots |-> NoCall]
    /\ calls = [s \in Slots |-> 0]
    /\ netio = [s \in Slots |-> FALSE]
    /\ up = [s \in Slots |-> NoOutcome]
    /\ resp = [s \in Slots |-> NoReply]
    /\ nresp = [s \in Slots |-> 0]
    /\ limited = [s \in Slots |-> FALSE]
    /\ hits = 0
    /\ expressMajor \in {4, 5}

\* res.status(..).json(..) once for every element of writes
Write(s, writes) ==
    /\ resp' = [resp EXCEPT ![s] = writes[Len(writes)]]
    /\ nresp' = [nresp EXCEPT ![s] = @ + Len(writes)]

\* where control goes when the async handler's promise rejects: express 5
\* passes the error to next(), express 4 ignores the returned promise
OnRejection == IF expressMajor >= 5 THEN "next_err" ELSE "unhandled"

\* lines 35-65: the handler from its entry to the await
HandlerEntry(s, r, o) ==
    /\ pc[s] = "idle"
    /\ req' = [req EXCEPT ![s] = r]
    /\ IF MissingFields(r) # {}
       THEN /\ Write(s, <<ValidationResponse(r)>>)
            /\ pc' = [pc EXCEPT ![s] = "done"]
            /\ UNCHANGED <<call, calls, netio, up>>
       ELSE IF SetupThrows(r)
       THEN /\ pc' = [pc EXCEPT ![s] = OnRejection]
            /\ UNCHANGED <<call, calls, netio, up, resp, nresp>>
       ELSE /\ call' = [call EXCEPT ![s] = AxiosConfig(r)]
            /\ calls' = [calls EXCEPT ![s] = @ + 1]
            /\ up' = [up EXCEPT ![s] = o]
            /\ netio' = [netio EXCEPT ![s] = o.kind # "setup"]
            /\ pc' = [pc EXCEPT ![s] = "awaiting"]
            /\ UNCHANGED <<resp, nresp>>
    /\ UNCHANGED <<limited, expressMajor>>

\* app.post('/api/jira-proxy', ...) reached directly
PostJiraProxy(s, r, o) ==
    /\ HandlerEntry(s, r, o)
    /\ UNCHANGED hits

\* app.use('/api/', apiLimiter) in front of the route.  The counter stops at
\* RateMax + 1: every larger value is answered the same way.
ApiLimiter(s, r, o) ==
    /\ pc[s] = "idle"
    /\ hits' = IF hits > RateMax THEN hits ELSE hits + 1
    /\ IF hits + 1 > RateMax
       THEN /\ req' = [req EXCEPT ![s] = r]
            /\ Write(s, <<TooManyResponse>>)
            /\ pc' = [pc EXCEPT ![s] = "done"]
            /\ limited' = [limited EXCEPT ![s] = TRUE]
            /\ UNCHANGED <<call, calls, netio, up, expressMajor>>
       ELSE HandlerEntry(s, r, o)

\* the rate-limit window (windowMs) expires
WindowReset ==
    /\ hits > 0
    /\ hits' = 0
    /\ UNCHANGED <<pc, req, call, calls, netio, up, resp, nresp, limited, expressMajor>>

\* the continuation after the await, one action per branch
Settle(s, writes) ==
    /\ Write(s, writes)
    /\ pc' = [pc EXCEPT ![s] = "done"]
    /\ UNCHANGED <<req, call, calls, netio, up, limited, hits, expressMajor>>

\* lines 66-67
AxiosFulfilled(s) ==
    /\ pc[s] = "awaiting"
    /\ up[s].kind = "response" /\ ValidateStatus(up[s].status)
    /\ Settle(s, <<SuccessResponse(up[s])>>)

\* lines 70-99
AxiosRejectedWithResponse(s) ==
    /\ pc[s] = "awaiting"
    /\ up[s].kind = "response" /\ ~ValidateStatus(up[s].status)
    /\ Settle(s, ErrorResponseWrites(up[s]))

\* lines 100-102
\* variant: the call is repeated once before giving up
AxiosRejectedNoResponse_Retry(s) ==
    /\ pc[s] = "awaiting"
    /\ up[s].kind = "noresponse"
    /\ IF calls[s] < 2
       THEN /\ calls' = [calls EXCEPT ![s] = @ + 1]
            /\ UNCHANGED <<pc, req, call, netio, up, resp, nresp, limited, hits, expressMajor>>
       ELSE Settle(s, <<NoResponseResponse(up[s])>>)
AxiosRejectedNoResponse(s) ==
    /\ pc[s] = "awaiting"
    /\ up[s].kind = "noresponse"
    /\ Settle(s, <<NoResponseResponse(up[s])>>)

\* lines 103-106
AxiosRejectedSetup(s) ==
    /\ pc[s] = "awaiting"
    /\ up[s].kind = "setup"
    /\ Settle(s, <<SetupErrorResponse(up[s])>>)

\* lines 110-113
ErrorMiddleware(s) ==
    /\ pc[s] = "next_err"
    /\ Settle(s, <<UnexpectedResponse>>)

\* the exchange is over and its closure is released
Close(s) ==
    /\ pc[s] = "done"
    /\ pc' = [pc EXCEPT ![s] = "idle"]
    /\ req' = [req EXCEPT ![s] = NoBody]
    /\ call' = [call EXCEPT ![s] = NoCall]
    /\ calls' = [calls EXCEPT ![s] = 0]
    /\ netio' = [netio EXCEPT ![s] = FALSE]
    /\ up' = [up EXCEPT ![s] = NoOutcome]
    /\ resp' = [resp EXCEPT ![s] = NoReply]
    /\ nresp' = [nresp EXCEPT ![s] = 0]
    /\ limited' = [limited EXCEPT ![s] = FALSE]
    /\ UNCHANGED <<hits, expressMajor>>

----------------------------------------------------------------------------
(* Specifications *)

\* an exchange slot is free: a new request can arrive on it
Idle(s) == pc[s] = "idle"

\* the route handler on its own, over every request body and upstream outcome
Next ==
    \E s \in HandlerSlots :
        \/ /\ Idle(s)
           /\ \E r \in Requests : \E o \in OutcomesFor(r) : PostJiraProxy(s, r, o)
        \/ AxiosFulfilled(s)
        \/ AxiosRejectedWithResponse(s)
        \/ AxiosRejectedNoResponse(s)
        \/ AxiosRejectedSetup(s)
        \/ ErrorMiddleware(s)
        \/ Close(s)

Spec == Init /\ [][Next]_vars

\* the route as mounted: apiLimiter in front, exchanges served concurrently
NextMounted ==
    \/ \E s \in Slots :
        \/ /\ Idle(s)
           /\ \E r \in MountedRequests : \E o \in MountedOutcomes : ApiLimiter(s, r, o)
        \/ AxiosFulfilled(s)
        \/ AxiosRejectedWithResponse(s)
        \/ Close(s)
    \/ WindowReset

SpecMounted == Init /\ [][NextMounted]_vars

\* well-formed requests: all five required fields are non-empty strings
WellFormed(r) == \A f \in RequiredFields : r[f].t = "string" /\ r[f].s # <<>>
WellFormedRequests == {r \in Requests : WellFormed(r)}
LiveOutcomesFor(r) ==
    IF InvalidUrl(RequestUrl(r)) THEN SetupOutcomes
    ELSE MountedOutcomes \cup NoResponseOutcomes

\* the handler on well-formed requests; the event loop runs every settled
\* continuation, and the axios timer (timeout: 20000) settles a call the
\* upstream never answers
NextLive ==
    \E s \in HandlerSlots :
        \/ /\ Idle(s)
           /\ \E r \in WellFormedRequests : \E o \in LiveOutcomesFor(r) : PostJiraProxy(s, r, o)
        \/ AxiosFulfilled(s)
        \/ AxiosRejectedWithResponse(s)
        \/ AxiosRejectedNoResponse(s)
        \/ AxiosRejectedSetup(s)
        \/ Close(s)

FairSpec ==
    /\ Init
    /\ [][NextLive]_vars
    /\ \A s \in HandlerSlots :
        /\ WF_vars(AxiosFulfilled(s))
        /\ WF_vars(AxiosRejectedWithResponse(s))
        /\ WF_vars(AxiosRejectedNoResponse(s))
        /\ WF_vars(AxiosRejectedSetup(s))

----------------------------------------------------------------------------
(* Vocabulary of the properties.  These definitions state what the         *)
(* specification asks for; none of them is read by an action.              *)

Finished(s) == pc[s] = "done"
GotResponse(s) == up[s].kind = "response"
SuccessStatus(st) == st >= 200 /\ st <= 299
SaysHtml(ct) == ct.t = "string" /\ Includes(ct.s, TextHtml)

\* the message of the error that stopped the construction of the request:
\* the TypeError of a template literal or of method.toUpperCase(), else the
\* message of the error axios raised
UnderlyingMessage(r, u) ==
    IF \E f \in RequiredFields \ {"method"} : ~CanInterpolate(r[f])
    THEN "Cannot convert object to primitive value"
    ELSE IF ~HasStringMethods(r.method)
    THEN "method.toUpperCase is not a function"
    ELSE u.message

\* RFC 4648 decoding, the inverse the Authorization header is read with
B64Index(c) == CHOOSE i \in 0..63 : B64[i + 1] = c
Sextet(c) == IF c = "=" THEN 0 ELSE B64Index(c)
DecodeQuad(qd) ==
    LET v == Sextet(qd[1]) * 262144 + Sextet(qd[2]) * 4096 + Sextet(qd[3]) * 64 + Sextet(qd[4])
        n == IF qd[3] = "=" THEN 1 ELSE IF qd[4] = "=" THEN 2 ELSE 3
    IN  SubSeq(<<v \div 65536, (v \div 256) % 256, v % 256>>, 1, n)
RECURSIVE Base64Decode(_)
Base64Decode(cs) ==
    IF Len(cs) < 4 THEN <<>>
    ELSE DecodeQuad(SubSeq(cs, 1, 4)) \o Base64Decode(SubSeq(cs, 5, Len(cs)))
BytesToString(bs) == [i \in 1..Len(bs) |-> Chr(bs[i])]

\* data[i..] starts with "Request ID: " and data[j..k] is the token after it:
\* the longest run of characters that are neither whitespace nor "<"
TokenAt(data, i, k) ==
    LET j == i + Len(RequestIdLit)
    IN  /\ j <= k /\ k <= Len(data)
        /\ SubSeq(data, i, j - 1) = RequestIdLit
        /\ \A m \in j..k : data[m] \notin {" ", "<"}
        /\ k = Len(data) \/ data[k + 1] \in {" ", "<"}
HasToken(data, i) == \E k \in 1..Len(data) : TokenAt(data, i, k)
ExpectedRequestId(d) ==
    IF d.t = "string" /\ \E i \in 1..Len(d.s) : HasToken(d.s, i)
    THEN LET i == CHOOSE x \in 1..Len(d.s) :
                      HasToken(d.s, x) /\ \A y \in 1..(x - 1) : ~HasToken(d.s, y)
             k == CHOOSE x \in 1..Len(d.s) : TokenAt(d.s, i, x)
         IN  Str(SubSeq(d.s, i + Len(RequestIdLit), k))
    ELSE Null

----------------------------------------------------------------------------
(* Properties *)

\* C1: a request in which any of the five required fields is absent or falsy
\* is answered 400 with the fixed body naming all five fields, and no
\* upstream request is dispatched for it.
C1_ValidationFailsFast ==
    \A s \in Slots :
        (pc[s] # "idle" /\ \E f \in RequiredFields : ~Truthy(req[s][f]))
        => /\ Finished(s)
           /\ nresp[s] = 1
           /\ resp[s] = Response(400, [error |-> MsgMissing])
           /\ calls[s] = 0
           /\ call[s] = NoCall
           /\ ~netio[s]

\* C1 witness: only jiraToken is missing and the request was answered 400
C1_Witness ==
    \E s \in Slots :
        /\ Finished(s)
        /\ {f \in RequiredFields : ~Truthy(req[s][f])} = {"jiraToken"}
        /\ resp[s].status = 400

\* C2: every request that reaches the handler gets exactly one response,
\* never zero and never two, and every failure ends in a structured JSON
\* error response rather than an unanswered request or an unhandled fault.
C2_ExactlyOneStructuredResponse ==
    \A s \in Slots :
        /\ nresp[s] <= 1
        /\ pc[s] # "unhandled"
        /\ Finished(s) =>
              /\ nresp[s] = 1
              /\ resp[s].status >= 400 => "error" \in DOMAIN resp[s].body

\* C3: a success status with a JSON body is passed through: same status,
\* same body, nothing added, removed or wrapped.
C3_SuccessPassThrough ==
    \A s \in Slots :
        (Finished(s) /\ GotResponse(s) /\ SuccessStatus(up[s].status))
        => /\ nresp[s] = 1
           /\ resp[s].status = up[s].status
           /\ resp[s].body = up[s].data

C3_Witness ==
    \E s \in Slots :
        /\ Finished(s) /\ GotResponse(s)
        /\ up[s].status = 201 /\ up[s].data.t = "object"
        /\ resp[s].status = 201

\* C4: a call that was sent and never yields a response (timeout,
\* connection reset, DNS failure) is eventually answered 504.
C4_NoResponseLeadsTo504 ==
    \A s \in Slots :
        (pc[s] = "awaiting" /\ up[s].kind = "noresponse")
        ~> (Finished(s) /\ nresp[s] = 1
            /\ resp[s] = Response(504, [error |-> MsgNoResponse]))

C4_Witness ==
    \E s \in Slots :
        /\ Finished(s)
        /\ up[s].kind = "noresponse" /\ up[s].message = "timeout of 20000ms exceeded"
        /\ netio[s]
        /\ resp[s].status = 504

\* C5: an error status with an HTML Content-Type is answered with the
\* upstream status (502 if it is absent) and a body with jiraHtmlError true
\* and cloudfrontRequestId the token after "Request ID: ", null if there is
\* none; the extraction never changes the shape of the response.
C5_HtmlError ==
    \A s \in Slots :
        (Finished(s) /\ GotResponse(s) /\ ~SuccessStatus(up[s].status) /\ SaysHtml(up[s].ctype))
        => /\ nresp[s] = 1
           /\ resp[s].status = (IF up[s].status = 0 THEN 502 ELSE up[s].status)
           /\ DOMAIN resp[s].body = {"error", "jiraHtmlError", "cloudfrontRequestId"}
           /\ resp[s].body.jiraHtmlError = TRUE
           /\ resp[s].body.cloudfrontRequestId = ExpectedRequestId(up[s].data)

\* C5 witness: the page holds "Request ID: K7<" and the id K7 is reported
C5_Witness ==
    \E s \in Slots :
        /\ Finished(s) /\ GotResponse(s)
        /\ up[s].status = 403
        /\ up[s].ctype = Str(<<"t", "e", "x", "t", "/", "h", "t", "m", "l", ";", " ", "c", "h", "a", "r", "s", "e", "t", "=", "U", "T", "F", "-", "8">>)
        /\ up[s].data = Str(RequestIdLit \o <<"K", "7", "<">>)
        /\ resp[s].body.cloudfrontRequestId = Str(<<"K", "7">>)

\* C6: an error status with a non-HTML or missing Content-Type is answered
\* with the upstream status and a body whose jiraErrorStatus is that status
\* and whose jiraErrorData is the upstream body, without jiraHtmlError.
C6_JiraError ==
    \A s \in Slots :
        (Finished(s) /\ GotResponse(s) /\ ~SuccessStatus(up[s].status) /\ ~SaysHtml(up[s].ctype))
        => /\ nresp[s] = 1
           /\ resp[s].status = up[s].status
           /\ DOMAIN resp[s].body = {"error", "jiraErrorStatus", "jiraErrorData"}
           /\ resp[s].body.jiraErrorStatus = up[s].status
           /\ resp[s].body.jiraErrorData = up[s].data

C6_Witness ==
    \E s \in Slots :
        /\ Finished(s) /\ GotResponse(s)
        /\ up[s].status = 404 /\ up[s].ctype = Undef
        /\ up[s].data.t = "object"
        /\ resp[s].body.jiraErrorData = up[s].data

\* C7: when the outbound request cannot be constructed or sent at all
\* (credential encoding or request construction fails), the answer is 500
\* with a body carrying the underlying error message, and nothing is sent
\* to the upstream.
C7_SetupErrorIs500 ==
    \A s \in Slots :
        (/\ pc[s] \in {"done", "unhandled"}
         /\ \A f \in RequiredFields : Truthy(req[s][f])
         /\ SetupThrows(req[s]) \/ up[s].kind = "setup")
        => /\ ~netio[s]
           /\ nresp[s] = 1
           /\ resp[s].status = 500
           /\ resp[s].body.error = MsgInternal \o UnderlyingMessage(req[s], up[s])

\* C8: the request handed to axios has url "https://" + jiraDomain +
\* "/rest/api/3" + "/" + jiraApiEndpoint, Authorization "Basic " +
\* base64(jiraEmail + ":" + jiraToken), the inbound method in one letter
\* case, and the inbound body as payload; it is the only one.
C8_UpstreamRequestShape ==
    \A s \in Slots :
        calls[s] > 0
        => LET c == call[s]
               r == req[s]
               b == SubSeq(c.Authorization, Len(BasicPrefix) + 1, Len(c.Authorization))
           IN  /\ calls[s] = 1
               /\ c.url = Https \o r.jiraDomain.s \o RestApi3 \o <<"/">> \o r.jiraApiEndpoint.s
               /\ SubSeq(c.Authorization, 1, Len(BasicPrefix)) = BasicPrefix
               /\ Len(b) % 4 = 0
               /\ BytesToString(Base64Decode(b)) = r.jiraEmail.s \o <<":">> \o r.jiraToken.s
               /\ ToUpperCase(c.method) = ToUpperCase(r.method.s)
               /\ c.method = ToLowerCase(c.method)
               /\ c.data = r.body

\* C8 witness: method Post, endpoint with a leading slash, a payload
C8_Witness ==
    \E s \in Slots :
        /\ calls[s] = 1
        /\ req[s].method = Str(<<"P", "o", "s", "t">>)
        /\ call[s].method = <<"p", "o", "s", "t">>
        /\ call[s].url = <<"h", "t", "t", "p", "s", ":", "/", "/", "x", ".", "a", "t", "l", "a", "s", "s", "i", "a", "n", ".", "n", "e", "t", "/", "r", "e", "s", "t", "/", "a", "p", "i", "/", "3", "/", "/", "i", "s", "s", "u", "e">>
        /\ call[s].Authorization = BasicPrefix \o <<"Y", "U", "B", "i", "L", "m", "N", "v", "b", "T", "p", "0">>
        /\ call[s].data.t = "object"

\* C9 as stated: on the mounted route the same request against the same
\* upstream always gets the same response, whatever was served before.
C9_SameRequestSameResponse ==
    \A s, t \in Slots :
        (/\ Finished(s) /\ Finished(t)
         /\ req[s] = req[t]
         /\ calls[s] = 0 \/ calls[t] = 0 \/ up[s] = up[t])
        => resp[s] = resp[t]

\* C9 amended: a request is turned away by apiLimiter exactly when RateMax
\* requests were already counted in the current window, and then it gets the
\* fixed 429 body and reaches neither handler nor upstream; the same request
\* with the same upstream outcome gets the same response whenever apiLimiter
\* let both through.
C9_SameResponseUnlessLimited ==
    /\ [](\A s, t \in Slots :
            (/\ Finished(s) /\ Finished(t)
             /\ ~limited[s] /\ ~limited[t]
             /\ req[s] = req[t] /\ up[s] = up[t])
            => resp[s] = resp[t])
    /\ [](\A s \in Slots :
            (Finished(s) /\ limited[s])
            => /\ resp[s] = Response(429, [error |-> MsgTooMany])
               /\ calls[s] = 0)
    /\ [][\A s \in Slots :
            (pc[s] = "idle" /\ pc'[s] # "idle")
            => (limited'[s] <=> hits >= RateMax)]_vars

\* C9 witness: two finished exchanges with the same request and outcome,
\* both let through, while the window already counts more than one hit
C9_Witness ==
    \E s, t \in Slots :
        /\ s # t
        /\ Finished(s) /\ Finished(t)
        /\ ~limited[s] /\ ~limited[t]
        /\ req[s] = req[t] /\ up[s] = up[t]
        /\ calls[s] = 1
        /\ hits > NumSlots

\* C10: at most one upstream call per inbound request; an error status, a
\* missing response or a setup error is answered as such, without a retry.
C10_NoRetry ==
    \A s \in Slots :
        /\ calls[s] <= 1
        /\ (Finished(s) /\ calls[s] = 1 /\ up[s].kind = "noresponse")
              => (nresp[s] = 1 /\ resp[s].status = 504)
        /\ (Finished(s) /\ calls[s] = 1 /\ up[s].kind = "setup")
              => (nresp[s] = 1 /\ resp[s].status = 500)
        /\ (Finished(s) /\ calls[s] = 1 /\ GotResponse(s))
              => (nresp[s] = 1 /\ resp[s].status = up[s].status)

C10_Witness ==
    \E s \in Slots :
        /\ Finished(s)
        /\ calls[s] = 1
        /\ up[s].kind = "noresponse" /\ up[s].message = "socket hang up"
        /\ resp[s].status = 504

====
